---- MODULE Spec2Model ----
(***************************************************************************)
(* Reconciliation engine of nba-milestones: the season-keyed diff of the   *)
(* official (nba_api) per-season table against the local game log          *)
(* (game_summary), the override store (season_totals_override) that the    *)
(* diff is upserted into, the corrected-total read side, the coverage      *)
(* scan's aligned table, and the retrying request executor.                *)
(***************************************************************************)
EXTENDS Integers, Sequences, FiniteSets, TLC

VARIABLES
    game_summary,            \* the raw game log: a set of rows
    schema,                  \* the names of the tables the database holds
    season_totals_override,  \* the override table: a set of rows, keyed
    last,                    \* the operation that has just run: its arguments and results
    retry,                   \* one execution of request_with_retries
    _CAREER_CACHE,           \* the in-memory cache of career totals of the process
    files,                   \* the cache directory: the content of each path
    save                     \* one execution of _save_cache, step by step

vars == <<game_summary, schema, season_totals_override, last, retry,
          _CAREER_CACHE, files, save>>

----------------------------------------------------------------------------
(* Bounds of the model. *)

\* largest value of one metric in one official season row or one delta set
MaxStat == 1
\* largest number of rows of the official per-season table of one response
MaxRows == 2
\* largest number of rows of the game log
MaxGames == 2
\* largest number of records of the override table under direct upserts
MaxOverrides == 2
\* largest number of result sets of one remote response
MaxFrames == 2
\* largest number of rows of the validation report
MaxReport == 2
\* largest number of games of one PlayerGameLog response
MaxFetched == 2

----------------------------------------------------------------------------
(* Data. *)

Players == {"p1", "p2"}
\* the player ids in sorted order
PlayerOrder == <<"p1", "p2">>
GameIds == {"g1", "g2"}
\* season keys, in the lexicographic order pandas sorts the join keys in
SeasonOrder == <<"2019-20", "2020-21">>
Seasons == {SeasonOrder[i] : i \in 1..Len(SeasonOrder)}
SeasonTypes == {"Regular Season", "Playoffs"}

\* coverage_scan_single.METRICS: (official column, local column)
METRICS ==
    << <<"PTS", "points">>, <<"REB", "rebounds">>, <<"AST", "assists">>,
       <<"STL", "steals">>, <<"BLK", "blocks">> >>
MetricIdx == 1..Len(METRICS)
NbaCols == {METRICS[i][1] : i \in MetricIdx}
DbCols == {METRICS[i][2] : i \in MetricIdx}

\* a box score with value v in column c and 0 in the others
Line(cols, c, v) == [k \in cols |-> IF k = c THEN v ELSE 0]

\* The game rows and the official rows of the model carry their value in the
\* first metric (PTS / points) and 0 in the four others; the delta sets
\* given to upsert_override directly range over all five columns.  A game
\* row carries one unit, so the local total of a season is its row count.
GameRows ==
    [player_id : Players, game_id : GameIds, season : Seasons,
     season_type : SeasonTypes,
     stats : {Line(DbCols, METRICS[1][2], 1)}]

\* rows of the table nba_career_by_season returns (season keys may repeat:
\* the response has one row per season and team)
NbaRows == [season : Seasons, stats : {Line(NbaCols, METRICS[1][1], v) : v \in 0..MaxStat}]

RECURSIVE SeqsUpTo(_, _)
SeqsUpTo(S, n) ==
    IF n = 0 THEN {<<>>}
    ELSE LET shorter == SeqsUpTo(S, n - 1)
         IN  shorter \cup {Append(q, x) : q \in {t \in shorter : Len(t) = n - 1}, x \in S}

NbaTables == SeqsUpTo(NbaRows, MaxRows)

RECURSIVE SetsUpTo(_, _)
SetsUpTo(S, n) ==
    IF n = 0 THEN {{}}
    ELSE LET smaller == SetsUpTo(S, n - 1)
         IN  smaller \cup {q \cup {x} : q \in smaller, x \in S}

\* game logs with one row per (player_id, game_id)
GameLogs ==
    {g \in SetsUpTo(GameRows, MaxGames) :
        \A r1, r2 \in g : (r1.player_id = r2.player_id /\ r1.game_id = r2.game_id) => r1 = r2}

\* delta sets a caller may hand to upsert_override: all five columns, or one
DeltaDicts ==
    {Line(DbCols, c, v) : c \in DbCols, v \in 0..MaxStat}
    \cup {[k \in {c} |-> v] : c \in DbCols, v \in 1..MaxStat}
    \cup {<<>>}

RECURSIVE SumOver(_, _)
\* SUM(col) over a set of game rows or override rows
SumOver(rows, c) ==
    IF rows = {} THEN 0
    ELSE LET r == CHOOSE x \in rows : TRUE
         IN  r.stats[c] + SumOver(rows \ {r}, c)

----------------------------------------------------------------------------
(* The official side: coverage_scan_single.nba_career_by_season.  A remote *)
(* response is a list of result sets (frames); a frame has its column     *)
(* names and its rows, a row being the list of its cells in column order. *)

\* the columns of the season-totals result set of the career endpoint
SeasonColumns == <<"SEASON_ID", "GP", "PTS", "REB", "AST", "STL", "BLK">>
\* the same names as some responses spell them
LowerColumns == <<"season_id", "gp", "pts", "reb", "ast", "stl", "blk">>
\* the columns of the career-totals result set: no season
CareerColumns == <<"PLAYER_ID", "GP", "PTS", "REB", "AST", "STL", "BLK">>
\* the columns of a result set without the metrics
RankColumns == <<"PLAYER_ID", "RANK">>

\* one row of a season-totals result set: one game played, one point; the
\* endpoint returns one row per season and team, so a season may repeat
SeasonCells == {<<season, 1, 1, 0, 0, 0, 0>> : season \in Seasons}

Frames ==
    [columns : {SeasonColumns, LowerColumns}, data : SeqsUpTo(SeasonCells, MaxRows)]
    \cup [columns : {CareerColumns}, data : {<< <<"p", 1, 1, 0, 0, 0, 0>> >>}]
    \cup [columns : {RankColumns}, data : {<< <<"p", 1>> >>}]

\* res.get_data_frames() of the responses the remote provider may give
RemoteResponses == SeqsUpTo(Frames, MaxFrames)

\* str.upper of a column name
upper(c) ==
    IF \E k \in 1..Len(LowerColumns) : LowerColumns[k] = c
    THEN SeasonColumns[CHOOSE k \in 1..Len(LowerColumns) : LowerColumns[k] = c]
    ELSE c

\* line 75: needed_cols
needed_cols == {"SEASON_ID", "GP"} \cup NbaCols

\* lines 78-79: needed.issubset(set(c.upper() for c in f.columns))
Qualifies(f, needed) ==
    needed \subseteq {upper(f.columns[k]) : k \in 1..Len(f.columns)}

\* a selection that keeps the last qualifying result set
LastMatch(frames, needed) ==
    IF \E i \in 1..Len(frames) : Qualifies(frames[i], needed)
    THEN CHOOSE i \in 1..Len(frames) :
             /\ Qualifies(frames[i], needed)
             /\ \A j \in (i + 1)..Len(frames) : ~ Qualifies(frames[j], needed)
    ELSE 0

\* lines 76-81: the index of the first qualifying frame, 0 for df_match = None
FirstMatch(frames, needed) ==
    IF \E i \in 1..Len(frames) : Qualifies(frames[i], needed)
    THEN CHOOSE i \in 1..Len(frames) :
             /\ Qualifies(frames[i], needed)
             /\ \A j \in 1..(i - 1) : ~ Qualifies(frames[j], needed)
    ELSE 0

\* df[name] once the columns are renamed to upper case (lines 88-89)
Column(f, row, name) ==
    row[CHOOSE k \in 1..Len(f.columns) : upper(f.columns[k]) = name]

\* nba_career_by_season, frames being res.get_data_frames() or []; the empty
\* canonical table is the table without rows
nba_career_by_season(frames) ==
    LET i == FirstMatch(frames, needed_cols)
    IN  IF frames = <<>> \/ i = 0 THEN <<>>
        ELSE [r \in 1..Len(frames[i].data) |->
                 [season |-> Column(frames[i], frames[i].data[r], "SEASON_ID"),
                  stats |-> [m \in NbaCols |-> Column(frames[i], frames[i].data[r], m)]]]

----------------------------------------------------------------------------
(* The local side: coverage_scan_single.db_career_by_season. *)

\* SELECT season, SUM(points), ... FROM game_summary
\* WHERE player_id = ? AND season_type = 'Regular Season' GROUP BY season
db_career_by_season(conn, player_id) ==
    LET rs == {r \in conn : r.player_id = player_id /\ r.season_type = "Regular Season"}
    IN  {[season |-> s,
          stats |-> [c \in DbCols |-> SumOver({r \in rs : r.season = s}, c)]]
         : s \in {r.season : r \in rs}}

----------------------------------------------------------------------------
(* pandas.merge(left, right, on="season", how="outer"): the keys in sorted  *)
(* order; a key of the left table yields one row per left row of that key  *)
(* (in the left table's order), a key of the right table alone yields the  *)
(* right row. A missing side is the empty cell <<>> (NaN).  The right      *)
(* table is the GROUP BY result, a set with one row per season.            *)

RowsOfSeason(df, s) ==
    LET Has(r) == r.season = s IN SelectSeq(df, Has)

JoinKey(left, right, s) ==
    LET L == RowsOfSeason(left, s)
        R == {r \in right : r.season = s}
        rcell == IF R = {} THEN <<>> ELSE <<(CHOOSE r \in R : TRUE).stats>>
    IN  IF Len(L) > 0
        THEN [i \in 1..Len(L) |-> [season |-> s, left |-> <<L[i].stats>>, right |-> rcell]]
        ELSE IF R # {} THEN <<[season |-> s, left |-> <<>>, right |-> rcell]>>
        ELSE <<>>

RECURSIVE JoinFrom(_, _, _)
JoinFrom(left, right, i) ==
    IF i > Len(SeasonOrder) THEN <<>>
    ELSE JoinKey(left, right, SeasonOrder[i]) \o JoinFrom(left, right, i + 1)

\* a join that keeps only the keys both tables have: how="inner"
InnerJoin(left, right) ==
    LET Both(row) == row.left # <<>> /\ row.right # <<>>
    IN  SelectSeq(JoinFrom(left, right, 1), Both)

OuterJoin(left, right) == JoinFrom(left, right, 1)

\* a fill that counts a missing cell as 1
FillOne(cell, cols) == IF cell = <<>> THEN [c \in cols |-> 1] ELSE cell[1]

\* pd.to_numeric(column, errors="coerce").fillna(0).astype(int) of one cell
FillNa(cell, cols) == IF cell = <<>> THEN [c \in cols |-> 0] ELSE cell[1]

----------------------------------------------------------------------------
(* The override store: batch_overrides_from_discrepancies.                 *)

\* CREATE TABLE IF NOT EXISTS season_totals_override (...); commit
ensure_table(tables) == tables \cup {"season_totals_override"}

\* deltas.get(k, 0)
Get(deltas, k) == IF k \in DOMAIN deltas THEN deltas[k] ELSE 0

\* INSERT ... VALUES (?, ?, 'Regular Season', ?, ?, ?, ?, ?): the proposed row
Excluded(player_id, season, deltas) ==
    [player_id |-> player_id, season |-> season, season_type |-> "Regular Season",
     stats |-> [points |-> Get(deltas, "points"),
                rebounds |-> Get(deltas, "rebounds"),
                assists |-> Get(deltas, "assists"),
                steals |-> Get(deltas, "steals"),
                blocks |-> Get(deltas, "blocks")]]

\* a conflict target that leaves the season out of the key
ConflictOnPlayer(r, excluded) ==
    r.player_id = excluded.player_id /\ r.season_type = excluded.season_type

\* ON CONFLICT(player_id, season, season_type): the primary key
ConflictTarget(r, excluded) ==
    /\ r.player_id = excluded.player_id
    /\ r.season = excluded.season
    /\ r.season_type = excluded.season_type

\* an update that accumulates: SET points = points + excluded.points, ...
DoUpdateAdd(r, excluded) ==
    [r EXCEPT !.stats = [c \in DOMAIN r.stats |-> r.stats[c] + excluded.stats[c]]]

\* an update that keeps the stored row: DO NOTHING
DoNothing(r, excluded) == r

\* DO UPDATE SET points = excluded.points, ..., blocks = excluded.blocks
DoUpdate(r, excluded) ==
    [r EXCEPT !.stats = [points |-> excluded.stats.points,
                         rebounds |-> excluded.stats.rebounds,
                         assists |-> excluded.stats.assists,
                         steals |-> excluded.stats.steals,
                         blocks |-> excluded.stats.blocks]]

\* a write that first deletes the records of the player: DELETE, then INSERT
UpsertFresh(store, player_id, season, deltas) ==
    {r \in store : r.player_id # player_id} \cup {Excluded(player_id, season, deltas)}

upsert_override(store, player_id, season, deltas) ==
    LET excluded == Excluded(player_id, season, deltas)
        conflict == {r \in store : ConflictTarget(r, excluded)}
    IN  IF conflict = {} THEN store \cup {excluded}
        ELSE (store \ conflict) \cup {DoUpdate(r, excluded) : r \in conflict}

\* lines 76-83: the merged table with the columns <dst>_nba and <dst>_db
MergedForOverrides(nba_df, db_df) ==
    LET j == OuterJoin(nba_df, db_df)
    IN  [i \in 1..Len(j) |->
            LET nba == FillNa(j[i].left, NbaCols)
                db == FillNa(j[i].right, DbCols)
            IN  [season |-> j[i].season,
                 nba |-> [k \in MetricIdx |-> nba[METRICS[k][1]]],
                 db |-> [k \in MetricIdx |-> db[METRICS[k][2]]]]]

\* the difference taken the other way round: local minus official
RowDeltasLocalMinusOfficial(row) ==
    [dst \in DbCols |->
        LET k == CHOOSE i \in MetricIdx : METRICS[i][2] = dst
        IN  row.db[k] - row.nba[k]]

\* lines 90-96: delta = int(row[dst_nba]) - int(row[dst_db]) for each metric
RowDeltas(row) ==
    [dst \in DbCols |->
        LET k == CHOOSE i \in MetricIdx : METRICS[i][2] = dst
        IN  row.nba[k] - row.db[k]]

\* a run that upserts every season of the merged table
AnyDeltas(deltas) == TRUE

\* lines 91-96: the flag nonzero
NonZero(deltas) == \E k \in DOMAIN deltas : deltas[k] # 0

\* lines 86-99: the upsert calls of one run, in order
UpsertCalls(merged) ==
    LET Issued(row) == row.season # "" /\ NonZero(RowDeltas(row))
        rows == SelectSeq(merged, Issued)
    IN  [i \in 1..Len(rows) |-> [season |-> rows[i].season, deltas |-> RowDeltas(rows[i])]]

RECURSIVE ApplyCalls(_, _, _, _)
ApplyCalls(store, player_id, calls, i) ==
    IF i > Len(calls) THEN store
    ELSE ApplyCalls(upsert_override(store, player_id, calls[i].season, calls[i].deltas),
                    player_id, calls, i + 1)

\* process_player(conn, player_id), nba_df being what nba_career_by_season returned
process_player(store, conn, player_id, nba_df) ==
    LET db_df == db_career_by_season(conn, player_id)
        calls == UpsertCalls(MergedForOverrides(nba_df, db_df))
    IN  ApplyCalls(store, player_id, calls, 1)

\* what nba_career_by_season gives process_player: the official table, or the
\* error request_with_retries raised
BatchOutcomes ==
    {[raised |-> TRUE, nba_df |-> <<>>]}
    \cup {[raised |-> FALSE, nba_df |-> nba_df] : nba_df \in NbaTables}

RECURSIVE batch_loop(_, _, _, _, _)
\* batch main, lines 118-121: the loop over sorted(players) from the i-th id on;
\* nothing catches an error of process_player, which ends the loop
batch_loop(store, conn, pids, outcome, i) ==
    IF i > Len(pids) THEN [store |-> store, raised |-> FALSE, done |-> i - 1]
    ELSE IF outcome[pids[i]].raised THEN [store |-> store, raised |-> TRUE, done |-> i - 1]
    ELSE batch_loop(process_player(store, conn, pids[i], outcome[pids[i]].nba_df),
                    conn, pids, outcome, i + 1)

\* a driver that commits after every player
CommitEachPlayer(store, conn, players, outcome) ==
    LET Listed(player_id) == player_id \in players
    IN  batch_loop(store, conn, SelectSeq(PlayerOrder, Listed), outcome, 1)

\* batch main, lines 114-125: the table after the run.  conn.commit() of line
\* 122 is reached only when the loop ends; conn.close() of line 125 drops what
\* was not committed
batch_main(store, conn, players, outcome) ==
    LET Listed(player_id) == player_id \in players
        run == batch_loop(store, conn, SelectSeq(PlayerOrder, Listed), outcome, 1)
    IN  [run EXCEPT !.store = IF run.raised THEN store ELSE run.store]

\* a read that leaves the overrides out
RawTotalOnly(tables, store, conn, player_id, db_col) ==
    SumOver({r \in conn : r.player_id = player_id /\ r.season_type = "Regular Season"},
            db_col)

\* validate_alltime_leaders.get_db_total: raw regular-season sum plus overrides
get_db_total(tables, store, conn, player_id, db_col) ==
    LET base_total ==
            SumOver({r \in conn : r.player_id = player_id /\ r.season_type = "Regular Season"},
                    db_col)
        override_total ==
            IF "season_totals_override" \notin tables THEN 0  \* sqlite3.Error
            ELSE SumOver({r \in store : r.player_id = player_id
                                        /\ r.season_type = "Regular Season"}, db_col)
    IN  base_total + override_total

RECURSIVE SumSeq(_, _, _)
SumSeq(df, c, i) == IF i > Len(df) THEN 0 ELSE df[i].stats[c] + SumSeq(df, c, i + 1)

\* validate_alltime_leaders.fetch_official_totals, lines 232-238: the column sums
OfficialTotal(nba_df, c) == SumSeq(nba_df, c, 1)

\* the difference taken the other way round: official minus local
ScanDeltaOfficialMinusLocal(nba, db) ==
    [dst \in DbCols |->
        LET k == CHOOSE i \in MetricIdx : METRICS[i][2] = dst
        IN  nba[METRICS[k][1]] - db[dst]]

\* coverage_scan_single.main, lines 214-215: DELTA_<dst> = DB_<dst> - NBA_<m>
ScanDelta(nba, db) ==
    [dst \in DbCols |->
        LET k == CHOOSE i \in MetricIdx : METRICS[i][2] = dst
        IN  db[dst] - nba[METRICS[k][1]]]

\* coverage_scan_single.main, lines 201-215: the aligned table of the scan.
\* The presence flags are taken before the NaN cells are filled; the loop of
\* line 211 also coerces them (their names start with NBA_ and DB_) to 0/1.
CoverageMerged(nba_df, db_df) ==
    LET j == OuterJoin(nba_df, db_df)
    IN  [i \in 1..Len(j) |->
            LET nba == FillNa(j[i].left, NbaCols)
                db == FillNa(j[i].right, DbCols)
            IN  [season |-> j[i].season,
                 NBA_present |-> IF j[i].left # <<>> THEN 1 ELSE 0,
                 DB_present |-> IF j[i].right # <<>> THEN 1 ELSE 0,
                 NBA |-> nba,
                 DB |-> db,
                 DELTA |-> ScanDelta(nba, db)]]

----------------------------------------------------------------------------
(* The retrying request executor: coverage_scan_single.request_with_retries *)
(* (validate_alltime_leaders.request_with_retries with its defaults).       *)
(* Times are in milliseconds.                                              *)

SLEEP_SECONDS == 1000
MAX_ATTEMPTS == 5
BASE_DELAY == 800
MAX_DELAY == 8000

\* random.uniform(0.2, 0.5), in percent
JitterPercent == {20, 30, 40, 50}

\* str(err) of the errors the operation raises, one character per element:
\* "HTTP 429", "Read Timed Out", "id 1503", "KeyError"
Errors ==
    { <<"H", "T", "T", "P", " ", "4", "2", "9">>,
      <<"R", "e", "a", "d", " ", "T", "i", "m", "e", "d", " ", "O", "u", "t">>,
      <<"i", "d", " ", "1", "5", "0", "3">>,
      <<"K", "e", "y", "E", "r", "r", "o", "r">> }

\* what a successful operation returns
Responses == {"response A", "response B"}

\* the transient markers: "429", "too many requests", "timeout", "timed out", "connection reset",
\* "temporary", "service unavailable", "503", "502", "bad gateway"
markers ==
    { <<"4", "2", "9">>,
      <<"t", "o", "o", " ", "m", "a", "n", "y", " ", "r", "e", "q", "u", "e", "s", "t", "s">>,
      <<"t", "i", "m", "e", "o", "u", "t">>,
      <<"t", "i", "m", "e", "d", " ", "o", "u", "t">>,
      <<"c", "o", "n", "n", "e", "c", "t", "i", "o", "n", " ", "r", "e", "s", "e", "t">>,
      <<"t", "e", "m", "p", "o", "r", "a", "r", "y">>,
      <<"s", "e", "r", "v", "i", "c", "e", " ", "u", "n", "a", "v", "a", "i", "l", "a", "b", "l", "e">>,
      <<"5", "0", "3">>,
      <<"5", "0", "2">>,
      <<"b", "a", "d", " ", "g", "a", "t", "e", "w", "a", "y">> }

UpperCase == <<"A", "B", "C", "D", "E", "F", "G", "H", "I", "J", "K", "L", "M", "N", "O", "P", "Q", "R", "S", "T", "U", "V", "W", "X", "Y", "Z">>
LowerCase == <<"a", "b", "c", "d", "e", "f", "g", "h", "i", "j", "k", "l", "m", "n", "o", "p", "q", "r", "s", "t", "u", "v", "w", "x", "y", "z">>

\* str.lower
lower(msg) ==
    [i \in 1..Len(msg) |->
        IF \E k \in 1..Len(UpperCase) : UpperCase[k] = msg[i]
        THEN LowerCase[CHOOSE k \in 1..Len(UpperCase) : UpperCase[k] = msg[i]]
        ELSE msg[i]]

\* m in msg: m is a substring of msg
Contains(msg, m) ==
    \E i \in 0..(Len(msg) - Len(m)) : SubSeq(msg, i + 1, i + Len(m)) = m

\* an executor that takes every error for a transient one
AlwaysRetry(err) == TRUE

\* msg = str(err).lower(); any(m in msg for m in markers)
_should_retry_error(err) ==
    LET msg == lower(err) IN \E m \in markers : Contains(msg, m)

\* an executor that keeps the error of its first failed attempt
KeepFirstError(last_err, e) == IF last_err = <<>> THEN e ELSE last_err

\* line 57: last_err = e
Caught(last_err, e) == e

\* a pacing sleep between attempts only, none before the first
PacingOnRetryOnly(slept) ==
    IF slept = <<>> THEN slept
    ELSE Append(slept, [kind |-> "pacing", ms |-> SLEEP_SECONDS])

\* line 54: time.sleep(SLEEP_SECONDS)
PacingSleep(slept) == Append(slept, [kind |-> "pacing", ms |-> SLEEP_SECONDS])

\* a backoff that shrinks with the attempt number
DelayShrinking(attempt) ==
    IF MAX_DELAY < BASE_DELAY * (2 ^ (MAX_ATTEMPTS - attempt))
    THEN MAX_DELAY ELSE BASE_DELAY * (2 ^ (MAX_ATTEMPTS - attempt))

\* delay = min(MAX_DELAY, BASE_DELAY * (2 ** (attempt - 1)))
Delay(attempt) ==
    IF MAX_DELAY < BASE_DELAY * (2 ^ (attempt - 1))
    THEN MAX_DELAY ELSE BASE_DELAY * (2 ^ (attempt - 1))

\* sleep_for = delay + jitter, jitter = delay * random.uniform(0.2, 0.5)
SleepFor(attempt, percent) == Delay(attempt) + (Delay(attempt) * percent) \div 100

\* an executor that sleeps without a progress line
Silent(printed, attempt) == printed

\* line 63: print(f"[retry] attempt {attempt}/{MAX_ATTEMPTS} failed: ...")
ProgressLine(printed, attempt) == Append(printed, attempt)

\* a loop that never moves on to the next attempt number
SameAttempt(attempt) == attempt

\* line 52: for attempt in range(1, MAX_ATTEMPTS + 1)
NextAttempt(attempt) == attempt + 1

\* request_with_retries has been entered: attempt 1 of the loop is about to run
Entered ==
    [pc |-> "pace", attempt |-> 1, last_err |-> <<>>, result |-> "",
     slept |-> <<>>,       \* every time.sleep so far: its kind and its length
     called |-> 0,         \* how often callable_fn has been called
     failed |-> 0,         \* how often callable_fn has raised
     errs |-> <<>>,        \* the errors callable_fn has raised, in order
     printed |-> <<>>]     \* the progress lines: the attempt number of each

\* line 54: time.sleep(SLEEP_SECONDS)
Pace ==
    /\ retry.pc = "pace"
    /\ retry' = [retry EXCEPT !.pc = "call", !.slept = PacingSleep(@)]
    /\ UNCHANGED <<game_summary, schema, season_totals_override, last,
                     _CAREER_CACHE, files, save>>

\* line 55: callable_fn() returns
CallReturns ==
    \E response \in Responses :
        /\ retry.pc = "call"
        /\ retry' = [retry EXCEPT !.pc = "returned", !.result = response,
                                  !.called = @ + 1]
        /\ UNCHANGED <<game_summary, schema, season_totals_override, last,
                     _CAREER_CACHE, files, save>>

\* lines 56-59: callable_fn() raises e
CallRaises ==
    \E e \in Errors :
        /\ retry.pc = "call"
        /\ retry' = [retry EXCEPT
                        !.pc = IF retry.attempt >= MAX_ATTEMPTS \/ ~ _should_retry_error(e)
                               THEN "raised" ELSE "backoff",
                        !.last_err = Caught(@, e), !.called = @ + 1, !.failed = @ + 1,
                        !.errs = Append(@, e)]
        /\ UNCHANGED <<game_summary, schema, season_totals_override, last,
                     _CAREER_CACHE, files, save>>

\* lines 60-64: the backoff sleep, then the next attempt of the loop
\* (line 52; line 65 once range(1, MAX_ATTEMPTS + 1) is used up)
Backoff ==
    \E percent \in JitterPercent :
        /\ retry.pc = "backoff"
        /\ retry' = [retry EXCEPT
                        !.pc = IF retry.attempt + 1 > MAX_ATTEMPTS THEN "raised" ELSE "pace",
                        !.attempt = NextAttempt(@),
                        !.printed = ProgressLine(@, retry.attempt),
                        !.slept = Append(@, [kind |-> "backoff",
                                             ms |-> SleepFor(retry.attempt, percent)])]
        /\ UNCHANGED <<game_summary, schema, season_totals_override, last,
                     _CAREER_CACHE, files, save>>

----------------------------------------------------------------------------
(* The validation report docs/reports/alltime_leaders_validation.csv and   *)
(* batch_overrides_from_discrepancies.load_discrepant_player_ids.  A cell  *)
(* of the delta column is its text, a tuple of characters.                 *)

Digits == <<"0", "1", "2", "3", "4", "5", "6", "7", "8", "9">>

\* the text of an integer of one digit, as to_csv writes an int column
IntText(v) == IF v < 0 THEN <<"-", Digits[1 - v]>> ELSE <<Digits[v + 1]>>

\* the text of the same value in a float column, which a column with a
\* missing delta is
FloatText(v) == IntText(v) \o <<".", "0">>

\* validate_metric_fallback, lines 343-347 and to_csv: the delta cells a
\* report may hold: an integer, blank for delta = None, or other text
DeltaCells ==
    {IntText(v) : v \in (0 - MaxStat)..MaxStat}
    \cup {FloatText(v) : v \in (0 - MaxStat)..MaxStat}
    \cup {<<>>, <<"n", "/", "a">>}

ReportRows == [player_id : Players, delta : DeltaCells]

Reports == SeqsUpTo(ReportRows, MaxReport)

DigitOf(ch) ==
    IF \E d \in 1..Len(Digits) : Digits[d] = ch
    THEN (CHOOSE d \in 1..Len(Digits) : Digits[d] = ch) - 1
    ELSE 0 - 1

NaN == [nan |-> TRUE, value |-> 0]

\* pd.to_numeric(cell, errors="coerce"): a sign, a digit and at most a
\* fraction of ".0" is a number, a blank or any other text is NaN
to_numeric(cell) ==
    LET negative == Len(cell) > 0 /\ cell[1] = "-"
        body == IF negative THEN Tail(cell) ELSE cell
        whole == Len(body) = 1 \/ (Len(body) = 3 /\ body[2] = "." /\ body[3] = "0")
    IN  IF body # <<>> /\ whole /\ DigitOf(body[1]) >= 0
        THEN [nan |-> FALSE,
              value |-> IF negative THEN 0 - DigitOf(body[1]) ELSE DigitOf(body[1])]
        ELSE NaN

\* a fill that counts a missing delta as 1
fillna_one(x) == IF x.nan THEN 1 ELSE x.value

\* .fillna(0).astype(int)
fillna(x) == IF x.nan THEN 0 ELSE x.value

\* lines 62-66: the ids of the rows whose delta is not 0 (every row of the
\* report has its player id)
load_discrepant_player_ids(report) ==
    {report[i].player_id :
        i \in {j \in 1..Len(report) : fillna(to_numeric(report[j].delta)) # 0}}

----------------------------------------------------------------------------
(* The cache of career totals: validate_alltime_leaders._load_cache,       *)
(* _save_cache and fetch_official_totals.  A cache record is a JSON value: *)
(* an object (type "dict", with its items), a non-zero number (type        *)
(* "number") or null (type "none").  A file is a list of tokens: the       *)
(* braces of a JSON object and one token per entry of it.                  *)

CAREER_TOTALS_CACHE == "data/cache/career_totals.json"

\* a writer that writes the canonical path in place
InPlace == CAREER_TOTALS_CACHE

\* line 56: tmp = CAREER_TOTALS_CACHE + ".tmp"
tmp == "data/cache/career_totals.json.tmp"

Paths == {CAREER_TOTALS_CACHE, tmp}

None == [type |-> "none", items |-> <<>>]

\* a record with the five totals, as fetch_official_totals writes it
Totals(pts) == [type |-> "dict", items |-> Line(NbaCols, METRICS[1][1], pts)]
\* a record that lacks four of the five metrics
Partial == [type |-> "dict", items |-> [k \in {METRICS[1][1]} |-> 1]]
\* a record that is no object: a number such as 7
Number == [type |-> "number", items |-> <<>>]

Token(t, key, value) == [t |-> t, key |-> key, value |-> value]

Missing == [exists |-> FALSE, text |-> <<>>]
NoFiles == [path \in Paths |-> Missing]

\* json.dump(_CAREER_CACHE, f): the entries in the order of the player ids
dumps(cache) ==
    LET Cached(player_id) == player_id \in DOMAIN cache
        keys == SelectSeq(PlayerOrder, Cached)
    IN  <<Token("{", "", None)>>
        \o [i \in 1..Len(keys) |-> Token("entry", keys[i], cache[keys[i]])]
        \o <<Token("}", "", None)>>

\* json.load(f): an object, another JSON value, or a JSONDecodeError
loads(text) ==
    IF /\ Len(text) >= 2
       /\ text[1].t = "{" /\ text[Len(text)].t = "}"
       /\ \A i \in 2..(Len(text) - 1) : text[i].t = "entry"
    THEN [kind |-> "dict",
          data |-> [player_id \in {text[i].key : i \in 2..(Len(text) - 1)} |->
                       text[CHOOSE i \in 2..(Len(text) - 1) :
                                /\ text[i].key = player_id
                                /\ \A j \in (i + 1)..(Len(text) - 1) :
                                      text[j].key # player_id].value]]
    ELSE IF text = <<Token("[", "", None), Token("]", "", None)>>
    THEN [kind |-> "list", data |-> <<>>]
    ELSE [kind |-> "error", data |-> <<>>]

\* _load_cache: the in-memory cache after it
_load_cache(cache, fs) ==
    IF ~ fs[CAREER_TOTALS_CACHE].exists THEN cache
    ELSE LET data == loads(fs[CAREER_TOTALS_CACHE].text)
         IN  IF data.kind = "error" THEN <<>>        \* lines 48-50
             ELSE IF data.kind = "dict" THEN data.data
             ELSE cache

\* line 57: open(tmp, "w")
open_tmp(fs) == [fs EXCEPT ![tmp] = [exists |-> TRUE, text |-> <<>>]]

\* line 58: json.dump has written the first n tokens of the document
write(fs, text, n) == [fs EXCEPT ![tmp] = [exists |-> TRUE, text |-> SubSeq(text, 1, n)]]

\* line 59: os.replace(tmp, CAREER_TOTALS_CACHE)
replace(fs) ==
    IF tmp = CAREER_TOTALS_CACHE THEN fs
    ELSE [fs EXCEPT ![CAREER_TOTALS_CACHE] = fs[tmp], ![tmp] = Missing]

\* where _save_cache may fail: nowhere, at makedirs or open, within json.dump
\* after n tokens, or at os.replace
SaveFaults ==
    {[at |-> "none", n |-> 0], [at |-> "open", n |-> 0], [at |-> "replace", n |-> 0]}
    \cup {[at |-> "write", n |-> n] : n \in 0..(Len(PlayerOrder) + 1)}

\* _save_cache: the files after it; no failure leaves it (lines 60-62)
_save_cache(cache, fs, fault) ==
    LET text == dumps(cache)
        n == IF fault.n < Len(text) THEN fault.n ELSE Len(text) - 1
    IN  CASE fault.at = "open" -> fs
          [] fault.at = "write" -> write(open_tmp(fs), text, n)
          [] fault.at = "replace" -> write(open_tmp(fs), text, Len(text))
          [] OTHER -> replace(write(open_tmp(fs), text, Len(text)))

\* df_match[name]: the column of that very name
HasColumn(f, name) == \E k \in 1..Len(f.columns) : f.columns[k] = name

RECURSIVE ColumnSum(_, _, _)
\* int(pd.to_numeric(df_match[name]).fillna(0).sum())
ColumnSum(f, name, r) ==
    IF r > Len(f.data) THEN 0
    ELSE f.data[r][CHOOSE k \in 1..Len(f.columns) : f.columns[k] = name]
         + ColumnSum(f, name, r + 1)

\* lines 219-238: the totals of a response, None when no frame qualifies or
\* the qualifying frame spells a column otherwise (KeyError, line 243)
totals_of(frames) ==
    LET i == FirstMatch(frames, NbaCols)
    IN  IF frames = <<>> \/ i = 0 THEN None
        ELSE IF \E m \in NbaCols : ~ HasColumn(frames[i], m) THEN None
        ELSE [type |-> "dict", items |-> [m \in NbaCols |-> ColumnSum(frames[i], m, 1)]]

\* the result sets that matter to the totals: season rows of one season
TotalsFrames ==
    {f \in Frames : \A r \in 1..Len(f.data) : f.data[r][1] \in {SeasonOrder[1], "p"}}

\* what request_with_retries gives fetch_official_totals: an error or a response
RemoteOutcomes ==
    {[raised |-> TRUE, frames |-> <<>>]}
    \cup {[raised |-> FALSE, frames |-> frames] : frames \in SeqsUpTo(TotalsFrames, MaxFrames)}

\* a lookup that never trusts the cache
NeverFull(cached) == FALSE

\* line 214: cached and all(k in cached for k in [...]), for a cached object
Full(cached) == DOMAIN cached.items # {} /\ NbaCols \subseteq DOMAIN cached.items

\* fetch_official_totals(player_id): the cache, the files, what it returns
\* (result), whether it raises, and how often it called the remote provider
fetch_official_totals(cache, fs, player_id, remote, fault) ==
    LET loaded == IF DOMAIN cache = {} THEN _load_cache(cache, fs) ELSE cache
        cached == IF player_id \in DOMAIN loaded THEN loaded[player_id] ELSE None
        fetched == IF remote.raised THEN None ELSE totals_of(remote.frames)
        stored == [p \in DOMAIN loaded \cup {player_id} |->
                      IF p = player_id THEN fetched ELSE loaded[p]]
    IN  IF cached.type = "number"        \* k in cached: TypeError, outside the try
        THEN [cache |-> loaded, fs |-> fs, result |-> None, raised |-> TRUE, remote |-> 0]
        ELSE IF cached.type = "dict" /\ Full(cached)
        THEN [cache |-> loaded, fs |-> fs, result |-> cached, raised |-> FALSE, remote |-> 0]
        ELSE IF fetched = None
        THEN [cache |-> loaded, fs |-> fs, result |-> None, raised |-> FALSE, remote |-> 1]
        ELSE [cache |-> stored, fs |-> _save_cache(stored, fs, fault), result |-> fetched,
              raised |-> FALSE, remote |-> 1]

\* what the cache file may hold when a process starts
CacheRecords == {Totals(1), Partial, Number}
CacheMappings ==
    UNION {[keys -> CacheRecords] : keys \in SUBSET Players}
CacheFiles ==
    {Missing,
     [exists |-> TRUE, text |-> <<>>],
     [exists |-> TRUE, text |-> <<Token("{", "", None), Token("entry", "p1", Totals(1))>>],
     [exists |-> TRUE, text |-> <<Token("[", "", None), Token("]", "", None)>>]}
    \cup {[exists |-> TRUE, text |-> dumps(cache)] : cache \in CacheMappings}

NotSaving == [pc |-> "idle", previous |-> Missing, text |-> <<>>, n |-> 0]

----------------------------------------------------------------------------
(* Operations.  last names the operation that has just run; Return hands   *)
(* control back to the caller, and the next operation starts from there.   *)

NoCall ==
    [op |-> "none", player_id |-> "", season |-> "", deltas |-> <<>>, hit |-> FALSE,
     prior |-> <<>>, nba_df |-> <<>>, calls |-> <<>>, merged |-> <<>>, frames |-> <<>>,
     result |-> None, raised |-> FALSE, remote |-> 0, fault |-> "", fresh |-> FALSE,
     batch |-> <<>>, db_col |-> "", total |-> 0, report |-> <<>>, players |-> {},
     run |-> <<>>]

HasTable == "season_totals_override" \in schema

----------------------------------------------------------------------------
(* The ingestion side: update_active_players_nba_api.update_database.  The *)
(* game log is the set of its rows: a second insert of a row that is there *)
(* already would leave the set as it is, and games_added tells it apart.   *)

\* the records of one PlayerGameLog response (df.to_dict('records'))
FetchedGames == [Game_ID : GameIds, PTS : {1}]

\* what fetch_player_games returns for one player (the empty list also when
\* the request failed, lines 76-78) and where the processing of the player
\* raises: 0 for nowhere, k for the statement of the k-th game (its SELECT
\* or its INSERT, nothing written), one more than the games for the commit
FetchOutcomes ==
    {o \in [games : SeqsUpTo(FetchedGames, MaxFetched), stop : 0..(MaxFetched + 1)] :
        o.stop <= Len(o.games) + 1}

\* line 95-96: the active players, in the order the query returns them
ActiveLists ==
    {q \in SeqsUpTo(Players, Len(PlayerOrder)) :
        \A i, j \in 1..Len(q) : q[i] = q[j] => i = j}

\* lines 99-104
NoStats == [players_processed |-> 0, games_added |-> 0, games_skipped |-> 0, errors |-> 0]

\* an ingestion that takes every game for a new one
NeverPresent(rows, player_id, game_id) == FALSE

\* lines 118-123: SELECT 1 FROM game_summary WHERE player_id = ? AND game_id = ?
Present(rows, player_id, game_id) ==
    \E r \in rows : r.player_id = player_id /\ r.game_id = game_id

\* lines 132-150: the row of the INSERT; game.get('REB', 0) and the others
\* are 0 for a record without them
InsertedRow(player_id, season, game) ==
    [player_id |-> player_id, game_id |-> game.Game_ID, season |-> season,
     season_type |-> "Regular Season",
     stats |-> Line(DbCols, METRICS[1][2], game.PTS)]

RECURSIVE game_loop(_, _, _, _, _, _)
\* lines 114-152: the games of one player from the i-th on; rows is what the
\* connection sees, its own uncommitted inserts included
game_loop(rows, stats, player_id, season, o, i) ==
    IF i > Len(o.games) THEN [rows |-> rows, stats |-> stats, raised |-> FALSE]
    ELSE IF i = o.stop THEN [rows |-> rows, stats |-> stats, raised |-> TRUE]
    ELSE IF Present(rows, player_id, o.games[i].Game_ID)
    THEN game_loop(rows, [stats EXCEPT !.games_skipped = @ + 1], player_id, season, o, i + 1)
    ELSE game_loop(rows \cup {InsertedRow(player_id, season, o.games[i])},
                   [stats EXCEPT !.games_added = @ + 1], player_id, season, o, i + 1)

RECURSIVE player_loop(_, _, _, _, _, _, _)
\* lines 107-162: the active players from the i-th on.  durable is the log
\* as committed, rows what the connection sees; an error of a player is
\* counted and leaves its inserts uncommitted until a later commit
player_loop(durable, rows, stats, active, season, outcome, i) ==
    IF i > Len(active) THEN [durable |-> durable, stats |-> stats]
    ELSE LET o == outcome[active[i]]
             g == game_loop(rows, stats, active[i], season, o, 1)
         IN  IF g.raised \/ o.stop = Len(o.games) + 1
             THEN player_loop(durable, g.rows, [g.stats EXCEPT !.errors = @ + 1],
                              active, season, outcome, i + 1)
             ELSE player_loop(g.rows, g.rows, [g.stats EXCEPT !.players_processed = @ + 1],
                              active, season, outcome, i + 1)

\* update_database: the log after conn.close() and the counters it returns
update_database(conn, active, season, outcome) ==
    player_loop(conn, conn, NoStats, active, season, outcome, 1)

\* one more row in the game log (a late-arriving game)
InsertGame ==
    /\ last.op = "none"
    /\ \E row \in GameRows :
        /\ Cardinality(game_summary) < MaxGames
        /\ ~ \E r \in game_summary : r.player_id = row.player_id /\ r.game_id = row.game_id
        /\ game_summary' = game_summary \cup {row}
        /\ last' = [NoCall EXCEPT !.op = "insert_game", !.player_id = row.player_id]
        /\ UNCHANGED <<schema, season_totals_override, retry, _CAREER_CACHE, files, save>>

\* one run of update_active_players_nba_api.update_database
UpdateDatabase ==
    /\ last.op = "none"
    /\ \E active \in ActiveLists, season \in Seasons :
        \E outcome \in [{active[i] : i \in 1..Len(active)} -> FetchOutcomes] :
            LET run == update_database(game_summary, active, season, outcome)
            IN  /\ game_summary' = run.durable
                /\ last' = [NoCall EXCEPT !.op = "update_database", !.season = season,
                                          !.run = [before |-> game_summary,
                                                   active |-> active,
                                                   outcome |-> outcome,
                                                   stats |-> run.stats]]
                /\ UNCHANGED <<schema, season_totals_override, retry, _CAREER_CACHE,
                               files, save>>

\* batch main, line 116
EnsureTable ==
    /\ last.op = "none"
    /\ schema' = ensure_table(schema)
    /\ last' = [NoCall EXCEPT !.op = "ensure_table"]
    /\ UNCHANGED <<game_summary, season_totals_override, retry, _CAREER_CACHE, files, save>>

\* a direct call upsert_override(conn, player_id, season, deltas)
UpsertOverride ==
    /\ last.op = "none"
    /\ \E player_id \in Players, season \in Seasons, deltas \in DeltaDicts :
        LET stored == {r \in season_totals_override :
                          /\ r.player_id = player_id /\ r.season = season
                          /\ r.season_type = "Regular Season"}
            hit == stored # {}
            prior == IF hit THEN (CHOOSE r \in stored : TRUE).stats ELSE <<>>
        IN  /\ HasTable
            /\ hit \/ Cardinality(season_totals_override) < MaxOverrides
            /\ season_totals_override' =
                   upsert_override(season_totals_override, player_id, season, deltas)
            /\ last' = [NoCall EXCEPT !.op = "upsert_override", !.player_id = player_id,
                                      !.season = season, !.deltas = deltas, !.hit = hit,
                                      !.prior = prior]
            /\ UNCHANGED <<game_summary, schema, retry, _CAREER_CACHE, files, save>>

RunOf(op, player_id, nba_df) ==
    [NoCall EXCEPT !.op = op, !.player_id = player_id, !.nba_df = nba_df,
                   !.calls = UpsertCalls(MergedForOverrides(
                                 nba_df, db_career_by_season(game_summary, player_id)))]

\* batch main, lines 118-119: process_player for one player of the batch
ProcessPlayer ==
    /\ last.op = "none"
    /\ \E player_id \in Players, nba_df \in NbaTables :
        /\ HasTable
        /\ season_totals_override' =
               process_player(season_totals_override, game_summary, player_id, nba_df)
        /\ last' = RunOf("process_player", player_id, nba_df)
        /\ UNCHANGED <<game_summary, schema, retry, _CAREER_CACHE, files, save>>

\* process_player(conn, player_id) together with its remote call (line 71):
\* frames is the response the executor returned to nba_career_by_season
ProcessPlayerFetched ==
    /\ last.op = "none"
    /\ HasTable
    /\ \E player_id \in Players, frames \in RemoteResponses :
        /\ season_totals_override' =
               process_player(season_totals_override, game_summary, player_id,
                              nba_career_by_season(frames))
        /\ last' = [RunOf("process_player_fetched", player_id, nba_career_by_season(frames))
                       EXCEPT !.frames = frames]
        /\ UNCHANGED <<game_summary, schema, retry, _CAREER_CACHE, files, save>>

\* validate_alltime_leaders.get_db_total(conn, player_id, db_col)
GetDbTotal ==
    /\ last.op = "none"
    /\ \E player_id \in Players, db_col \in DbCols :
        /\ last' = [NoCall EXCEPT !.op = "get_db_total", !.player_id = player_id,
                                  !.db_col = db_col,
                                  !.total = get_db_total(schema, season_totals_override,
                                                         game_summary, player_id, db_col)]
        /\ UNCHANGED <<game_summary, schema, season_totals_override, retry,
                       _CAREER_CACHE, files, save>>

\* batch main, line 109: load_discrepant_player_ids(csv_path)
LoadDiscrepantPlayerIds ==
    /\ last.op = "none"
    /\ \E report \in Reports :
        /\ last' = [NoCall EXCEPT !.op = "load_discrepant_player_ids",
                                  !.report = report,
                                  !.players = load_discrepant_player_ids(report)]
        /\ UNCHANGED <<game_summary, schema, season_totals_override, retry,
                       _CAREER_CACHE, files, save>>

\* batch_overrides_from_discrepancies.main for the players of the report
BatchMain ==
    /\ last.op = "none"
    /\ \E players \in SUBSET Players \ {{}}, outcome \in [Players -> BatchOutcomes] :
        LET run == batch_main(season_totals_override, game_summary, players, outcome)
        IN  /\ schema' = ensure_table(schema)
            /\ season_totals_override' = run.store
            /\ last' = [NoCall EXCEPT !.op = "batch_main",
                                      !.raised = run.raised,
                                      !.batch = [players |-> players, outcome |-> outcome,
                                                 done |-> run.done,
                                                 before |-> season_totals_override]]
            /\ UNCHANGED <<game_summary, retry, _CAREER_CACHE, files, save>>

\* poc_create_season_overrides.main for one player id
PocMain ==
    /\ last.op = "none"
    /\ \E player_id \in Players, nba_df \in NbaTables :
        /\ schema' = ensure_table(schema)
        /\ season_totals_override' =
               process_player(season_totals_override, game_summary, player_id, nba_df)
        /\ last' = RunOf("poc_main", player_id, nba_df)
        /\ UNCHANGED <<game_summary, retry, _CAREER_CACHE, files, save>>

\* coverage_scan_single.main for one player id
CoverageScan ==
    /\ last.op = "none"
    /\ \E player_id \in Players, nba_df \in NbaTables :
        /\ last' = [NoCall EXCEPT !.op = "coverage_scan", !.player_id = player_id,
                                  !.nba_df = nba_df,
                                  !.merged = CoverageMerged(
                                      nba_df, db_career_by_season(game_summary, player_id))]
        /\ UNCHANGED <<game_summary, schema, season_totals_override, retry, _CAREER_CACHE, files, save>>

\* nba_career_by_season(player_id) on the response the executor returned
NbaCareerBySeason ==
    /\ last.op = "none"
    /\ \E player_id \in Players, frames \in RemoteResponses :
        /\ last' = [NoCall EXCEPT !.op = "nba_career_by_season", !.player_id = player_id,
                                  !.frames = frames,
                                  !.nba_df = nba_career_by_season(frames)]
        /\ UNCHANGED <<game_summary, schema, season_totals_override, retry, _CAREER_CACHE, files, save>>

\* validate_metric_fallback, line 342: fetch_official_totals(player_id)
FetchOfficialTotals ==
    /\ last.op = "none"
    /\ \E player_id \in Players, remote \in RemoteOutcomes, fault \in SaveFaults :
        LET out == fetch_official_totals(_CAREER_CACHE, files, player_id, remote, fault)
        IN  /\ _CAREER_CACHE' = out.cache
            /\ files' = out.fs
            /\ last' = [NoCall EXCEPT !.op = "fetch_official_totals",
                                      !.player_id = player_id, !.result = out.result,
                                      !.raised = out.raised, !.remote = out.remote,
                                      !.fault = fault.at,
                                      !.fresh = (DOMAIN _CAREER_CACHE = {})]
            /\ UNCHANGED <<game_summary, schema, season_totals_override, retry, save>>

\* fetch_official_totals(player_id), the response of the remote provider kept
FetchOfficialTotalsOfResponse ==
    /\ last.op = "none"
    /\ \E player_id \in Players, remote \in RemoteOutcomes, fault \in SaveFaults :
        LET out == fetch_official_totals(_CAREER_CACHE, files, player_id, remote, fault)
        IN  /\ _CAREER_CACHE' = out.cache
            /\ files' = out.fs
            /\ last' = [NoCall EXCEPT !.op = "fetch_official_totals_of_response",
                                      !.player_id = player_id, !.result = out.result,
                                      !.raised = out.raised, !.remote = out.remote,
                                      !.fault = fault.at,
                                      !.frames = remote.frames,
                                      !.fresh = (DOMAIN _CAREER_CACHE = {})]
            /\ UNCHANGED <<game_summary, schema, season_totals_override, retry, save>>

\* the process ends and a later run starts: its in-memory cache is empty
Restart ==
    /\ last.op = "none"
    /\ DOMAIN _CAREER_CACHE # {}
    /\ _CAREER_CACHE' = <<>>
    /\ last' = [NoCall EXCEPT !.op = "restart"]
    /\ UNCHANGED <<game_summary, schema, season_totals_override, retry, files, save>>

\* _save_cache, line 55: the document is about to be written
SaveEnter ==
    /\ save.pc = "idle"
    /\ save' = [pc |-> "open", previous |-> files[CAREER_TOTALS_CACHE],
                text |-> dumps(_CAREER_CACHE), n |-> 0]
    /\ UNCHANGED <<game_summary, schema, season_totals_override, last, retry,
                   _CAREER_CACHE, files>>

\* line 57: open(tmp, "w") creates or truncates the file
SaveOpen ==
    /\ save.pc = "open"
    /\ files' = open_tmp(files)
    /\ save' = [save EXCEPT !.pc = "write"]
    /\ UNCHANGED <<game_summary, schema, season_totals_override, last, retry,
                   _CAREER_CACHE>>

\* line 58: json.dump writes the next token
SaveWrite ==
    /\ save.pc = "write"
    /\ save.n < Len(save.text)
    /\ files' = write(files, save.text, save.n + 1)
    /\ save' = [save EXCEPT !.n = @ + 1]
    /\ UNCHANGED <<game_summary, schema, season_totals_override, last, retry,
                   _CAREER_CACHE>>

\* line 57: the with block closes the file
SaveClose ==
    /\ save.pc = "write"
    /\ save.n = Len(save.text)
    /\ save' = [save EXCEPT !.pc = "replace"]
    /\ UNCHANGED <<game_summary, schema, season_totals_override, last, retry,
                   _CAREER_CACHE, files>>

\* line 59: os.replace(tmp, CAREER_TOTALS_CACHE)
SaveReplace ==
    /\ save.pc = "replace"
    /\ files' = replace(files)
    /\ save' = [save EXCEPT !.pc = "done"]
    /\ UNCHANGED <<game_summary, schema, season_totals_override, last, retry,
                   _CAREER_CACHE>>

\* the process dies at a step of _save_cache: its memory is gone, the files stay
Crash ==
    /\ save.pc \in {"open", "write", "replace"}
    /\ save' = [save EXCEPT !.pc = "crashed"]
    /\ _CAREER_CACHE' = <<>>
    /\ UNCHANGED <<game_summary, schema, season_totals_override, last, retry, files>>

Return ==
    /\ last.op # "none"
    /\ last' = NoCall
    /\ UNCHANGED <<game_summary, schema, season_totals_override, retry, _CAREER_CACHE, files, save>>

----------------------------------------------------------------------------
(* Specifications. *)

\* the database as created: an empty game log, no override table
Init ==
    /\ game_summary = {}
    /\ schema = {"game_summary"}
    /\ season_totals_override = {}
    /\ last = NoCall
    /\ retry = Entered
    /\ _CAREER_CACHE = <<>>
    /\ files = NoFiles
    /\ save = NotSaving

\* reconciliation runs interleaved with game-log changes
Next == InsertGame \/ EnsureTable \/ ProcessPlayer \/ PocMain \/ Return

Spec == Init /\ [][Next]_vars

\* direct upserts into the override table
NextStore == EnsureTable \/ UpsertOverride \/ Return

SpecStore == Init /\ [][NextStore]_vars

\* a database with any game log of the model and an empty override table
InitLog ==
    /\ game_summary \in GameLogs
    /\ schema = {"game_summary", "season_totals_override"}
    /\ season_totals_override = {}
    /\ last = NoCall
    /\ retry = Entered
    /\ _CAREER_CACHE = <<>>
    /\ files = NoFiles
    /\ save = NotSaving

\* one reconciliation run
NextRun == ProcessPlayer

SpecRun == InitLog /\ [][NextRun]_vars

\* one coverage scan
NextScan == CoverageScan

SpecScan == InitLog /\ [][NextScan]_vars

\* the official table of one response, on an empty database
NextFetch == NbaCareerBySeason

SpecFetch == Init /\ [][NextFetch]_vars

\* the official table of one response next to the local table of any game log
NextTables == NbaCareerBySeason

SpecTables == InitLog /\ [][NextTables]_vars

\* a cache file of any content, and a process that has just started
InitCache ==
    /\ game_summary = {}
    /\ schema = {"game_summary"}
    /\ season_totals_override = {}
    /\ last = NoCall
    /\ retry = Entered
    /\ _CAREER_CACHE = <<>>
    /\ files \in {[NoFiles EXCEPT ![CAREER_TOTALS_CACHE] = f] : f \in CacheFiles}
    /\ save = NotSaving

\* lookups of career totals, run after run
NextCache == FetchOfficialTotals \/ Restart \/ Return

SpecCache == InitCache /\ [][NextCache]_vars

\* one response read by either reader of the career endpoint
NextCase == NbaCareerBySeason \/ FetchOfficialTotalsOfResponse

SpecCase == InitCache /\ [][NextCase]_vars

\* ingestion runs, one after the other, over any game log
NextIngest == UpdateDatabase \/ Return

SpecIngest == InitLog /\ [][NextIngest]_vars

\* a cache that is about to be saved over a cache file of any content
InitSave ==
    /\ game_summary = {}
    /\ schema = {"game_summary"}
    /\ season_totals_override = {}
    /\ last = NoCall
    /\ retry = Entered
    /\ _CAREER_CACHE \in CacheMappings \ {<<>>}
    /\ files \in {[NoFiles EXCEPT ![CAREER_TOTALS_CACHE] = f] : f \in CacheFiles}
    /\ save = NotSaving

\* one execution of _save_cache, which may die at any step
NextSave == SaveEnter \/ SaveOpen \/ SaveWrite \/ SaveClose \/ SaveReplace \/ Crash

SpecSave == InitSave /\ [][NextSave]_vars

\* the selection of the players of a report
NextReport == LoadDiscrepantPlayerIds

SpecReport == Init /\ [][NextReport]_vars

\* reads of the corrected total between ingestion and direct upserts
NextRead == InsertGame \/ EnsureTable \/ UpsertOverride \/ GetDbTotal \/ Return

SpecRead == Init /\ [][NextRead]_vars

\* the engine operations on the store, in any order
NextEngine == EnsureTable \/ UpsertOverride \/ ProcessPlayer \/ Return

SpecEngine == Init /\ [][NextEngine]_vars

\* one reconciliation run on a remote response
NextFetched == ProcessPlayerFetched

SpecFetched == InitLog /\ [][NextFetched]_vars

\* one run of the batch override driver
NextBatch == BatchMain

SpecBatch == InitLog /\ [][NextBatch]_vars

\* one execution of request_with_retries
NextRetry == Pace \/ CallReturns \/ CallRaises \/ Backoff

SpecRetry == Init /\ [][NextRetry]_vars

\* the same executor when every sleep ends and every call of the operation
\* returns or raises
SpecRetryFair == SpecRetry /\ WF_vars(NextRetry)

----------------------------------------------------------------------------
(* What the claims speak of, read off the state after an operation.        *)

RanEngine == last.op \in {"process_player", "poc_main"}

RegularRows(player_id, season) ==
    {r \in game_summary : /\ r.player_id = player_id /\ r.season = season
                          /\ r.season_type = "Regular Season"}

\* the raw local total of one season
LocalOf(player_id, season, dst) == SumOver(RegularRows(player_id, season), dst)

OverrideRows(player_id, season) ==
    {r \in season_totals_override : /\ r.player_id = player_id /\ r.season = season
                                    /\ r.season_type = "Regular Season"}

\* the stored override of one season, 0 when there is no record
OverrideOf(player_id, season, dst) == SumOver(OverrideRows(player_id, season), dst)

\* the positions of the rows of one season in the response of the latest run
OfficialIdx(season) == {i \in 1..Len(last.nba_df) : last.nba_df[i].season = season}

\* the official value of a season with at most one row, 0 when it has none
OfficialOf(season, m) ==
    IF OfficialIdx(season) = {} THEN 0
    ELSE last.nba_df[CHOOSE i \in OfficialIdx(season) : TRUE].stats[m]

OneRowSeason(season) == Cardinality(OfficialIdx(season)) <= 1

CallIdx(season) == {i \in 1..Len(last.calls) : last.calls[i].season = season}

----------------------------------------------------------------------------
(* C1.  Round trip: after process_player has upserted its deltas, the      *)
(* corrected total get_db_total reads (raw regular-season sum plus the     *)
(* player's overrides) equals the official total in every metric, so a     *)
(* re-validation finds delta 0.                                            *)
C1_RoundTrip ==
    RanEngine =>
        \A k \in MetricIdx :
            get_db_total(schema, season_totals_override, game_summary,
                         last.player_id, METRICS[k][2])
                - OfficialTotal(last.nba_df, METRICS[k][1]) = 0

(* C2.  The latest computation is authoritative: right after every run,    *)
(* for every season the run has seen (on the official side, with one row,  *)
(* or on the local side) and every metric, the raw local total plus the    *)
(* stored override equals the official value that run saw, whatever        *)
(* earlier runs left behind.                                               *)
C2_LatestAuthoritative ==
    RanEngine =>
        \A season \in Seasons, k \in MetricIdx :
            (/\ OneRowSeason(season)
             /\ OfficialIdx(season) # {} \/ RegularRows(last.player_id, season) # {}) =>
                LocalOf(last.player_id, season, METRICS[k][2])
                    + OverrideOf(last.player_id, season, METRICS[k][2])
                = OfficialOf(season, METRICS[k][1])

----------------------------------------------------------------------------
\* the box scores a call for a season may have been computed from: the
\* official rows of that season, or the all-zero row when it has none
OfficialLines(season) ==
    IF OfficialIdx(season) = {} THEN {[c \in NbaCols |-> 0]}
    ELSE {last.nba_df[j].stats : j \in OfficialIdx(season)}

(* C3.  In process_player the delta of every season and metric is the      *)
(* official value minus the local value, a side that lacks the season      *)
(* counting as 0: every upsert call carries such a difference, and on an   *)
(* empty store the record a season ends with is exactly that difference    *)
(* (positive where the local log under-counts, negative where it           *)
(* over-counts, no record where the two agree).                            *)
C3_DeltaIsOfficialMinusLocal ==
    last.op = "process_player" =>
        /\ \A i \in 1..Len(last.calls) :
              \E official \in OfficialLines(last.calls[i].season) :
                  \A k \in MetricIdx :
                      last.calls[i].deltas[METRICS[k][2]]
                          = official[METRICS[k][1]]
                            - LocalOf(last.player_id, last.calls[i].season, METRICS[k][2])
        /\ \A season \in Seasons, k \in MetricIdx :
              OneRowSeason(season) =>
                  OverrideOf(last.player_id, season, METRICS[k][2])
                      = OfficialOf(season, METRICS[k][1])
                        - LocalOf(last.player_id, season, METRICS[k][2])

\* a run with a positive delta (the season is missing locally) and a negative
\* one on a season both sides have
C3_Witness ==
    /\ last.op = "process_player"
    /\ \E i, j \in 1..Len(last.calls) :
          /\ last.calls[i].deltas.points > 0
          /\ RegularRows(last.player_id, last.calls[i].season) = {}
          /\ last.calls[j].deltas.points < 0
          /\ OfficialIdx(last.calls[j].season) # {}

(* C4 as the specification words it.  Every DELTA_<metric> value of the    *)
(* coverage scan's aligned table is the official (NBA) value minus the     *)
(* local (DB) value of its row.                                            *)
C4_DeltaIsOfficialMinusLocal ==
    last.op = "coverage_scan" =>
        \A i \in 1..Len(last.merged), k \in MetricIdx :
            last.merged[i].DELTA[METRICS[k][2]]
                = last.merged[i].NBA[METRICS[k][1]] - last.merged[i].DB[METRICS[k][2]]

(* C4.  Every DELTA_<metric> value of the coverage scan's aligned table is *)
(* the local (DB) value minus the official (NBA) value of its row: the     *)
(* opposite sign of the deltas process_player stores.  The DB value is the *)
(* regular-season sum of the season, the NBA value that of an official row *)
(* of the season, and a side that lacks the season counts as 0.            *)
C4_DeltaIsLocalMinusOfficial ==
    last.op = "coverage_scan" =>
        \A i \in 1..Len(last.merged) :
            /\ last.merged[i].NBA \in OfficialLines(last.merged[i].season)
            /\ \A k \in MetricIdx :
                  /\ last.merged[i].DB[METRICS[k][2]]
                         = LocalOf(last.player_id, last.merged[i].season, METRICS[k][2])
                  /\ last.merged[i].DELTA[METRICS[k][2]]
                         = last.merged[i].DB[METRICS[k][2]]
                           - last.merged[i].NBA[METRICS[k][1]]

\* a scan with a positive and a negative DELTA_points
C4_Witness ==
    /\ last.op = "coverage_scan"
    /\ \E i, j \in 1..Len(last.merged) :
          /\ last.merged[i].DELTA.points > 0
          /\ last.merged[j].DELTA.points < 0

(* C5.  The aligned table is a full outer join on the season key: a season *)
(* has a row iff the official table or the local table has it, it has      *)
(* exactly one row, and a season on one side only carries 0 in every       *)
(* metric of the other side.  Stated of the coverage scan's table and of   *)
(* the table process_player merges from the same inputs.                   *)
C5_FullOuterJoin ==
    last.op = "coverage_scan" =>
        LET engine == MergedForOverrides(
                          last.nba_df, db_career_by_season(game_summary, last.player_id))
            official == {s \in Seasons : OfficialIdx(s) # {}}
            local == {s \in Seasons : RegularRows(last.player_id, s) # {}}
        IN  /\ {last.merged[i].season : i \in 1..Len(last.merged)} = official \cup local
            /\ {engine[i].season : i \in 1..Len(engine)} = official \cup local
            /\ \A s \in official \cup local :
                  /\ Cardinality({i \in 1..Len(last.merged) : last.merged[i].season = s}) = 1
                  /\ Cardinality({i \in 1..Len(engine) : engine[i].season = s}) = 1
            /\ \A i \in 1..Len(last.merged), k \in MetricIdx :
                  /\ last.merged[i].season \notin local
                         => last.merged[i].DB[METRICS[k][2]] = 0
                  /\ last.merged[i].season \notin official
                         => last.merged[i].NBA[METRICS[k][1]] = 0
            /\ \A i \in 1..Len(engine), k \in MetricIdx :
                  /\ engine[i].season \notin local => engine[i].db[k] = 0
                  /\ engine[i].season \notin official => engine[i].nba[k] = 0

(* C6.  A season whose deltas are all zero is never upserted: every upsert *)
(* call of a run carries a non-zero delta, a season whose official and     *)
(* local values agree in all five metrics gets no call, and every record   *)
(* of the override store has a non-zero column.                            *)
C6_NoZeroRecord ==
    /\ \A r \in season_totals_override : \E c \in DbCols : r.stats[c] # 0
    /\ RanEngine =>
          /\ \A i \in 1..Len(last.calls) : \E c \in DbCols : last.calls[i].deltas[c] # 0
          /\ \A season \in Seasons :
                (/\ OneRowSeason(season)
                 /\ \A k \in MetricIdx :
                       OfficialOf(season, METRICS[k][1])
                           = LocalOf(last.player_id, season, METRICS[k][2]))
                    => CallIdx(season) = {}

\* a run over a season both sides have and agree on, next to one it upserts
C6_Witness ==
    /\ RanEngine
    /\ Len(last.calls) > 0
    /\ \E season \in Seasons :
          /\ OfficialIdx(season) # {}
          /\ RegularRows(last.player_id, season) # {}
          /\ OfficialOf(season, "PTS") = LocalOf(last.player_id, season, "points")
          /\ CallIdx(season) = {}
          /\ OverrideRows(last.player_id, season) = {}

(* C7.  Idempotence: upserting one (key, delta set) twice leaves the store *)
(* as upserting it once does, for every key and delta set; and running     *)
(* process_player again, with nothing changed in between, leaves the store *)
(* as the first run left it.                                               *)
C7_Idempotent ==
    /\ \A player_id \in Players, season \in Seasons, deltas \in DeltaDicts :
          LET once == upsert_override(season_totals_override, player_id, season, deltas)
          IN  upsert_override(once, player_id, season, deltas) = once
    /\ last.op = "process_player" =>
          process_player(season_totals_override, game_summary, last.player_id, last.nba_df)
              = season_totals_override

\* a run that has stored records for two seasons, so that the second run and
\* the second upsert both meet a conflict
C7_Witness ==
    /\ last.op = "process_player"
    /\ Cardinality(season_totals_override) >= 2
    /\ Len(last.calls) >= 2

(* C8.  An upsert on an existing key replaces the record wholesale: the    *)
(* key still has exactly one record, and each of its five columns holds    *)
(* the value of the new delta set, 0 for a metric the delta set lacks;     *)
(* no column keeps its prior value or adds to it.                          *)
C8_WholesaleReplace ==
    (last.op = "upsert_override" /\ last.hit) =>
        /\ Cardinality(OverrideRows(last.player_id, last.season)) = 1
        /\ \A r \in OverrideRows(last.player_id, last.season), c \in DbCols :
              r.stats[c] = IF c \in DOMAIN last.deltas THEN last.deltas[c] ELSE 0

\* an upsert on an existing key whose delta set lacks a metric that the prior
\* record held a non-zero value in
C8_Witness ==
    /\ last.op = "upsert_override"
    /\ last.hit
    /\ \E c \in DbCols : c \notin DOMAIN last.deltas /\ last.prior[c] # 0
    /\ \E c \in DOMAIN last.deltas : last.deltas[c] # 0

\* the seasons the calls of the run that has just finished name
CalledSeasons(run) == {run.calls[i].season : i \in 1..Len(run.calls)}

(* C9.  Frame: ensure_table and process_player (with the upserts it        *)
(* issues) never change the game log; ensure_table changes no record; a    *)
(* run changes no record of another player and no record of a season it    *)
(* issues no upsert for, and every record it adds or changes has the key   *)
(* of one of its upserts; an upsert_override for one key, whatever its     *)
(* delta set, leaves every record of a different key in the store.         *)
C9_Frame ==
    [][ (last'.op \in {"ensure_table", "process_player", "poc_main"}) =>
            /\ game_summary' = game_summary
            /\ \A player_id \in Players, season \in Seasons, deltas \in DeltaDicts :
                  \A r \in season_totals_override :
                      (r.player_id # player_id \/ r.season # season
                           \/ r.season_type # "Regular Season")
                          => r \in upsert_override(season_totals_override,
                                                  player_id, season, deltas)
            /\ last'.op = "ensure_table" => season_totals_override' = season_totals_override
            /\ \A r \in season_totals_override :
                  (r.player_id # last'.player_id \/ r.season \notin CalledSeasons(last'))
                      => r \in season_totals_override'
            /\ \A r \in season_totals_override' \ season_totals_override :
                  /\ r.player_id = last'.player_id
                  /\ r.season \in CalledSeasons(last')
                  /\ r.season_type = "Regular Season" ]_vars

\* a run that upserts while the store holds a record of another player and a
\* record of the same player for a season the run does not touch
C9_Witness ==
    /\ RanEngine
    /\ Len(last.calls) > 0
    /\ game_summary # {}
    /\ \E r \in season_totals_override : r.player_id # last.player_id
    /\ \E r \in season_totals_override :
          r.player_id = last.player_id /\ r.season \notin CalledSeasons(last)

\* the backoff sleeps of the execution, in order
BackoffSleeps ==
    LET IsBackoff(x) == x.kind = "backoff" IN SelectSeq(retry.slept, IsBackoff)

(* C10.  When the operation has failed k times with a transient error      *)
(* (0 <= k < 5) and then succeeded, request_with_retries returns the       *)
(* operation's result, has called it k + 1 times, has slept k backoff      *)
(* sleeps, and no backoff sleep is shorter than the one before it.         *)
C10_RetriesThenSuccess ==
    retry.pc = "returned" =>
        /\ retry.result \in Responses
        /\ retry.failed \in 0..(MAX_ATTEMPTS - 1)
        /\ retry.called = retry.failed + 1
        /\ Len(BackoffSleeps) = retry.failed
        /\ \A i \in 1..(Len(BackoffSleeps) - 1) :
              BackoffSleeps[i].ms <= BackoffSleeps[i + 1].ms

\* success at the last attempt: four transient failures, four backoff sleeps
C10_Witness ==
    /\ retry.pc = "returned"
    /\ retry.failed = MAX_ATTEMPTS - 1
    /\ Len(BackoffSleeps) = 4
    /\ BackoffSleeps[1].ms = 1200 /\ BackoffSleeps[4].ms = 7680

----------------------------------------------------------------------------
\* the messages that hold none of the transient markers: "KeyError"
Unmarked == { <<"K", "e", "y", "E", "r", "r", "o", "r">> }

\* the messages that hold one: "HTTP 429", "Read Timed Out", "id 1503"
Marked == Errors \ Unmarked

(* C11.  When the first failure of the operation is non-transient (its     *)
(* message holds no transient marker), request_with_retries has called the *)
(* operation exactly once, has slept no backoff sleep, and raises that     *)
(* error to its caller.                                                    *)
C11_NonTransientNotRetried ==
    (retry.errs # <<>> /\ retry.errs[1] \in Unmarked) =>
        /\ retry.pc = "raised"
        /\ retry.called = 1
        /\ Len(retry.errs) = 1
        /\ retry.last_err = retry.errs[1]
        /\ BackoffSleeps = <<>>

\* the operation has raised "KeyError" at its first call
C11_Witness ==
    /\ retry.pc = "raised"
    /\ retry.errs = << <<"K", "e", "y", "E", "r", "r", "o", "r">> >>
    /\ Len(retry.slept) = 1

(* C12.  request_with_retries never calls the operation more than 5 times; *)
(* an operation that fails with a transient error every time is called     *)
(* exactly 5 times; a non-transient error at any attempt ends the          *)
(* execution; and the error raised to the caller is the one of the most    *)
(* recent attempt.                                                         *)
C12_AtMostFiveCalls ==
    /\ retry.called <= 5
    /\ (retry.errs # <<>> /\ retry.errs[Len(retry.errs)] \in Unmarked) => retry.pc = "raised"
    /\ Len(retry.errs) = 5 => retry.pc = "raised"
    /\ retry.pc = "raised" =>
          /\ retry.errs # <<>>
          /\ retry.last_err = retry.errs[Len(retry.errs)]
          /\ (\A i \in 1..Len(retry.errs) : retry.errs[i] \in Marked) => retry.called = 5

\* five transient failures, the last with another message than the first
C12_Witness ==
    /\ retry.pc = "raised"
    /\ retry.called = 5
    /\ \A i \in 1..Len(retry.errs) : retry.errs[i] \in Marked
    /\ retry.errs[1] # retry.errs[5]

\* the pacing sleeps of an execution
PacingSleeps(r) ==
    LET IsPacing(x) == x.kind = "pacing" IN SelectSeq(r.slept, IsPacing)

(* C13.  Pacing: every call of the operation, the first included, comes    *)
(* right after one pacing sleep of SLEEP_SECONDS (the sleep before that    *)
(* one, if any, is a backoff sleep), and the number of pacing sleeps       *)
(* equals the number of attempts: the calls made, plus the attempt whose   *)
(* call is about to be made.                                               *)
C13_Pacing ==
    [][ /\ retry'.called = retry.called + 1 =>
              /\ retry.slept # <<>>
              /\ retry.slept[Len(retry.slept)] = [kind |-> "pacing", ms |-> SLEEP_SECONDS]
              /\ Len(retry.slept) > 1 => retry.slept[Len(retry.slept) - 1].kind = "backoff"
              /\ retry'.slept = retry.slept
        /\ Len(PacingSleeps(retry')) =
               retry'.called + (IF retry'.pc = "call" THEN 1 ELSE 0) ]_vars

\* the fifth call has been made, after five pacing sleeps
C13_Witness ==
    /\ retry.called = 5
    /\ Len(PacingSleeps(retry)) = 5
    /\ Len(BackoffSleeps) = 4

----------------------------------------------------------------------------
(* C19.  Season uniqueness: the official table nba_career_by_season        *)
(* returns and the local table db_career_by_season returns each hold every *)
(* season key at most once.                                                *)
C19_SeasonUnique ==
    last.op = "nba_career_by_season" =>
        /\ \A i, j \in 1..Len(last.nba_df) :
              last.nba_df[i].season = last.nba_df[j].season => i = j
        /\ \A r1, r2 \in db_career_by_season(game_summary, last.player_id) :
              r1.season = r2.season => r1 = r2

\* the frames of the response that hold every required column, whatever the
\* case of their names
Qualifying ==
    {i \in 1..Len(last.frames) :
        \/ last.frames[i].columns = SeasonColumns
        \/ last.frames[i].columns = LowerColumns}

(* C20.  Result-set selection: nba_career_by_season returns the rows of    *)
(* the first result set, in response order, whose column names (compared   *)
(* in upper case) hold SEASON_ID, GP and the five metric columns: one row  *)
(* per row of that result set, with its season and its metric values; it   *)
(* returns the table without rows when the response has no result set or   *)
(* none qualifies.                                                         *)
C20_FirstQualifyingFrame ==
    last.op = "nba_career_by_season" =>
        IF Qualifying = {} THEN last.nba_df = <<>>
        ELSE LET i == CHOOSE q \in Qualifying : \A o \in Qualifying : q <= o
                 data == last.frames[i].data
             IN  /\ Len(last.nba_df) = Len(data)
                 /\ \A r \in 1..Len(data) :
                       /\ last.nba_df[r].season = data[r][1]
                       /\ last.nba_df[r].stats =
                              [PTS |-> data[r][3], REB |-> data[r][4], AST |-> data[r][5],
                               STL |-> data[r][6], BLK |-> data[r][7]]

\* a response whose first result set lacks SEASON_ID and whose second one
\* qualifies with lower-case names and has two rows
C20_Witness ==
    /\ last.op = "nba_career_by_season"
    /\ Len(last.frames) = 2
    /\ last.frames[1].columns = CareerColumns
    /\ last.frames[2].columns = LowerColumns
    /\ Len(last.nba_df) = 2

\* the record the cache holds for the player of a lookup: the memory, or the
\* file when the memory is empty
Held(player_id) ==
    LET cache == IF DOMAIN _CAREER_CACHE = {} THEN _load_cache(_CAREER_CACHE, files)
                 ELSE _CAREER_CACHE
    IN  [cache |-> cache,
         record |-> IF player_id \in DOMAIN cache THEN cache[player_id] ELSE None]

FiveMetrics(record) == record.type = "dict" /\ NbaCols \subseteq DOMAIN record.items

\* C14: a lookup of a player whose cached record has all five metrics returns
\* that record and does not call the remote provider; any other lookup calls
\* the remote provider, and writes the cache (memory, and file when the write
\* does not fail) exactly when the fetch yields totals
C14_ReadThrough ==
    [][(last.op = "none" /\ last'.op = "fetch_official_totals") =>
        LET held == Held(last'.player_id)
        IN  IF FiveMetrics(held.record)
            THEN /\ last'.result = held.record
                 /\ last'.remote = 0
                 /\ ~ last'.raised
            ELSE /\ last'.remote = 1
                 /\ IF last'.result # None
                    THEN /\ last'.player_id \in DOMAIN _CAREER_CACHE'
                         /\ _CAREER_CACHE'[last'.player_id] = last'.result
                         /\ last'.fault = "none" =>
                                files'[CAREER_TOTALS_CACHE] =
                                    [exists |-> TRUE, text |-> dumps(_CAREER_CACHE')]
                    ELSE /\ _CAREER_CACHE' = held.cache
                         /\ files' = files]_vars

\* C15: whatever the cache file holds and whatever write fails, a lookup of
\* career totals raises no error
C15_CacheNeverFatal ==
    last.op = "fetch_official_totals" => ~ last.raised

\* C16: at every step of _save_cache, and after a crash at any step, the
\* canonical path holds the document it held before or the whole new document
C16_AtomicWrite ==
    save.pc # "idle" =>
        files[CAREER_TOTALS_CACHE] \in {save.previous, [exists |-> TRUE, text |-> save.text]}

C16_Witness ==
    /\ save.pc = "crashed"
    /\ files[tmp].exists
    /\ Len(files[tmp].text) > 0
    /\ Len(files[tmp].text) < Len(save.text)
    /\ save.previous.exists
    /\ save.previous.text # save.text

\* the mapping a run with an empty memory reads from the file
OnDisk(fs) ==
    IF fs[CAREER_TOTALS_CACHE].exists THEN loads(fs[CAREER_TOTALS_CACHE].text)
    ELSE [kind |-> "missing", data |-> <<>>]

\* C17: a lookup that fetched totals and wrote them leaves a file that holds
\* that record, an entry for every other player the file had one for, and
\* unchanged every five-metric record the file held for them; a lookup in
\* a run with an empty memory, for a player whose record in the file has all
\* five metrics, returns that very record without a remote call and has every
\* record of the file in memory
C17_RoundTrip ==
    [][(last.op = "none" /\ last'.op = "fetch_official_totals") =>
        /\ (last'.remote = 1 /\ last'.result # None /\ last'.fault = "none") =>
              /\ OnDisk(files').kind = "dict"
              /\ last'.player_id \in DOMAIN OnDisk(files').data
              /\ OnDisk(files').data[last'.player_id] = last'.result
              /\ FiveMetrics(last'.result)
              /\ OnDisk(files).kind = "dict" =>
                    \A q \in DOMAIN OnDisk(files).data \ {last'.player_id} :
                        /\ q \in DOMAIN OnDisk(files').data
                        /\ FiveMetrics(OnDisk(files).data[q]) =>
                              OnDisk(files').data[q] = OnDisk(files).data[q]
        /\ (/\ DOMAIN _CAREER_CACHE = {}
            /\ OnDisk(files).kind = "dict"
            /\ last'.player_id \in DOMAIN OnDisk(files).data
            /\ FiveMetrics(OnDisk(files).data[last'.player_id])) =>
              /\ last'.result = OnDisk(files).data[last'.player_id]
              /\ last'.remote = 0
              /\ ~ last'.raised
              /\ files' = files
              /\ \A q \in DOMAIN OnDisk(files).data :
                    /\ q \in DOMAIN _CAREER_CACHE'
                    /\ _CAREER_CACHE'[q] = OnDisk(files).data[q]]_vars

\* a later run returns, without a remote call, totals that no cache file held
\* at the start: an earlier lookup wrote them; another player's record is there
C17_Witness ==
    /\ last.op = "fetch_official_totals"
    /\ last.fresh
    /\ last.remote = 0
    /\ last.result # None
    /\ last.result \notin CacheRecords
    /\ DOMAIN _CAREER_CACHE = Players

\* the override rows of one player
RowsOf(store, player_id) == {r \in store : r.player_id = player_id}

\* C18: after a run of the batch driver, every player of the batch whose own
\* processing raised no error has the overrides process_player writes for it,
\* whether or not another player of the batch failed
C18_PartialFailureIsolation ==
    last.op = "batch_main" =>
        \A player_id \in last.batch.players :
            ~ last.batch.outcome[player_id].raised =>
                RowsOf(season_totals_override, player_id)
                    = RowsOf(process_player(last.batch.before, game_summary, player_id,
                                            last.batch.outcome[player_id].nba_df),
                             player_id)

\* the rows of a season of the latest response that have a non-zero metric
NonZeroIdx(season) ==
    {i \in OfficialIdx(season) : \E m \in NbaCols : last.nba_df[i].stats[m] # 0}

\* C21: for a player without regular-season rows in the game log the local
\* table is empty, and after process_player the override store holds, for
\* that player, one record for each official season that has a non-zero
\* metric and none for any other season; the record holds the official values
C21_MissingLocalIsZero ==
    (/\ last.op = "process_player"
     /\ \A season \in Seasons : RegularRows(last.player_id, season) = {}) =>
        /\ db_career_by_season(game_summary, last.player_id) = {}
        /\ \A season \in Seasons :
              IF NonZeroIdx(season) = {}
              THEN OverrideRows(last.player_id, season) = {}
              ELSE /\ Cardinality(OverrideRows(last.player_id, season)) = 1
                   /\ \E i \in NonZeroIdx(season) :
                         \A k \in MetricIdx :
                             OverrideOf(last.player_id, season, METRICS[k][2])
                                 = last.nba_df[i].stats[METRICS[k][1]]
                   /\ OneRowSeason(season) =>
                         \A k \in MetricIdx :
                             OverrideOf(last.player_id, season, METRICS[k][2])
                                 = OfficialOf(season, METRICS[k][1])

\* a player with playoff rows only, one official season with a point and one
\* official season of zeros
C21_Witness ==
    /\ last.op = "process_player"
    /\ \A season \in Seasons : RegularRows(last.player_id, season) = {}
    /\ \E r \in game_summary : r.player_id = last.player_id
    /\ \E s1, s2 \in Seasons :
          /\ OfficialIdx(s1) # {} /\ NonZeroIdx(s1) = {}
          /\ NonZeroIdx(s2) # {}
          /\ OverrideOf(last.player_id, s2, "points") > 0

\* C22: when the response is empty or none of its result sets has the
\* required columns, process_player takes the official table as empty, writes
\* for every season the player has regular-season rows in an override that is
\* the negated local total, and none for the other seasons, so the corrected
\* total of every season and of the career is 0
C22_MismatchIsNoData ==
    (last.op = "process_player_fetched" /\ Qualifying = {}) =>
        /\ last.nba_df = <<>>
        /\ \A season \in Seasons, dst \in DbCols :
              /\ OverrideOf(last.player_id, season, dst)
                     = 0 - LocalOf(last.player_id, season, dst)
              /\ LocalOf(last.player_id, season, dst)
                     + OverrideOf(last.player_id, season, dst) = 0
        /\ \A season \in Seasons :
              Cardinality(OverrideRows(last.player_id, season))
                  = IF \E dst \in DbCols : LocalOf(last.player_id, season, dst) # 0
                    THEN 1 ELSE 0
        /\ \A dst \in DbCols :
              get_db_total(schema, season_totals_override, game_summary,
                           last.player_id, dst) = 0

\* a response of two result sets, none with the season columns, for a player
\* with regular-season games in two seasons
C22_Witness ==
    /\ last.op = "process_player_fetched"
    /\ Len(last.frames) = 2
    /\ Qualifying = {}
    /\ \A season \in Seasons : OverrideOf(last.player_id, season, "points") < 0

SameKey(r, q) ==
    r.player_id = q.player_id /\ r.season = q.season /\ r.season_type = q.season_type

\* C23: no step of the engine (ensure_table, upsert_override, process_player)
\* removes the record of a key: a key goes from absent to present and from
\* present to present only; the store holds one record per key, every record
\* has season_type 'Regular Season', and ensure_table leaves the records, and
\* an existing table, as they are
C23_KeyStateMachine ==
    [][/\ \A r \in season_totals_override :
              \E q \in season_totals_override' : SameKey(r, q)
       /\ \A r, q \in season_totals_override' : SameKey(r, q) => r = q
       /\ \A q \in season_totals_override' : q.season_type = "Regular Season"
       /\ last'.op = "ensure_table" =>
              /\ season_totals_override' = season_totals_override
              /\ HasTable => schema' = schema]_vars

\* a run of process_player has changed the record of one key next to the
\* record of another key, which direct upserts had written
C23_Witness ==
    /\ last.op = "process_player"
    /\ Cardinality(season_totals_override) = 2
    /\ \E r, q \in season_totals_override :
          /\ r.player_id # q.player_id
          /\ r.player_id = last.player_id
          /\ r.stats.points # 0
          /\ q.stats.points = 0
          /\ q.stats.blocks # 0

\* C24: get_db_total returns the sum of the metric over the regular-season
\* game rows of the player plus the sum of the metric over the 'Regular
\* Season' override records of the player; without an override table it
\* returns the sum over the game rows alone
C24_CorrectedTotal ==
    last.op = "get_db_total" =>
        LET games == {r \in game_summary : /\ r.player_id = last.player_id
                                           /\ r.season_type = "Regular Season"}
            records == {r \in season_totals_override :
                           /\ r.player_id = last.player_id
                           /\ r.season_type = "Regular Season"}
        IN  /\ HasTable => last.total = SumOver(games, last.db_col)
                                        + SumOver(records, last.db_col)
            /\ ~ HasTable => last.total = SumOver(games, last.db_col)

\* a read that adds two override records to a regular-season game and leaves
\* a playoff game and the records of the other player out
C24_Witness ==
    /\ last.op = "get_db_total"
    /\ last.db_col = "points"
    /\ HasTable
    /\ \E r \in game_summary : r.player_id = last.player_id /\ r.season_type = "Playoffs"
    /\ \E r \in game_summary : r.player_id = last.player_id /\ r.season_type = "Regular Season"
    /\ \E r \in season_totals_override : r.player_id = last.player_id /\ r.stats.points # 0
    /\ \E r \in season_totals_override : r.player_id # last.player_id /\ r.stats.points # 0
    /\ last.total = 2

\* the cells that hold a number other than 0
NonZeroCells ==
    {IntText(v) : v \in ((0 - MaxStat)..MaxStat) \ {0}}
    \cup {FloatText(v) : v \in ((0 - MaxStat)..MaxStat) \ {0}}

\* C25: load_discrepant_player_ids returns the players that have a report
\* row whose delta is a number other than 0, and no other player: rows with
\* delta 0, a blank delta or a delta that is no number select nobody
C25_NonZeroSelects ==
    last.op = "load_discrepant_player_ids" =>
        last.players =
            {player_id \in Players :
                \E i \in 1..Len(last.report) :
                    /\ last.report[i].player_id = player_id
                    /\ last.report[i].delta \in NonZeroCells}

\* a report with a negative delta of one player and a blank delta of the other
C25_Witness ==
    /\ last.op = "load_discrepant_player_ids"
    /\ Len(last.report) = 2
    /\ last.report[1].delta = <<"-", "1", ".", "0">>
    /\ last.report[2].delta = <<>>
    /\ last.report[1].player_id # last.report[2].player_id
    /\ last.players = {last.report[1].player_id}

\* C26: every execution of request_with_retries ends, by returning the
\* response or by raising; it raises after an error without a transient
\* marker or after the fifth attempt, and never makes a sixth call
C26_Terminates ==
    /\ <>(retry.pc \in {"returned", "raised"})
    /\ [](/\ retry.called <= 5
          /\ retry.pc = "returned" => retry.result \in Responses
          /\ retry.pc = "raised" =>
                /\ retry.result = ""
                /\ retry.last_err \in Unmarked \/ retry.called = 5)

\* an execution that ended by exhaustion: five calls, all failed
C26_Witness ==
    /\ retry.pc = "raised"
    /\ retry.called = 5
    /\ retry.last_err \in Marked

\* C27: at every point of an execution of request_with_retries there are as
\* many backoff sleeps as progress lines, one for each attempt before the
\* current one and each announcing the attempt that failed; when the
\* execution has ended they are one fewer than the calls, every error but
\* the last of a failed execution carried a transient marker, and no sleep
\* follows the last failure
C27_BackoffPerRetry ==
    LET backoffs == Len(BackoffSleeps)
    IN  /\ backoffs = Len(retry.printed)
        /\ backoffs = retry.attempt - 1
        /\ \A i \in 1..Len(retry.printed) : retry.printed[i] = i
        /\ retry.pc \in {"returned", "raised"} => backoffs = retry.called - 1
        /\ retry.pc = "raised" =>
              /\ backoffs = Len(retry.errs) - 1
              /\ retry.slept[Len(retry.slept)].kind = "pacing"
        /\ \A i \in 1..backoffs : retry.errs[i] \in Marked

\* a failure without a transient marker after two retries: two backoff
\* sleeps, two progress lines, three calls
C27_Witness ==
    /\ retry.pc = "raised"
    /\ retry.called = 3
    /\ retry.last_err \in Unmarked
    /\ Len(retry.printed) = 2
    /\ Len(BackoffSleeps) = 2

\* the players of the latest batch the loop went through before it ended
ProcessedFirst ==
    {PlayerOrder[i] : i \in {j \in 1..Len(PlayerOrder) :
        /\ PlayerOrder[j] \in last.batch.players
        /\ Cardinality({k \in 1..j : PlayerOrder[k] \in last.batch.players})
               <= last.batch.done}}

\* C28: a run of the batch driver that an error of some player ended leaves
\* the override store as it was before the run, whatever the players before
\* the failing one had upserted; a run that no error ended went through
\* every player of the batch, holds for each of them the overrides
\* process_player writes, and leaves the records of the other players alone
C28_AllOrNothing ==
    last.op = "batch_main" =>
        IF \E player_id \in last.batch.players : last.batch.outcome[player_id].raised
        THEN /\ last.raised
             /\ season_totals_override = last.batch.before
             /\ last.batch.done < Cardinality(last.batch.players)
        ELSE /\ ~ last.raised
             /\ last.batch.done = Cardinality(last.batch.players)
             /\ \A player_id \in Players :
                   RowsOf(season_totals_override, player_id)
                       = IF player_id \in last.batch.players
                         THEN RowsOf(process_player(last.batch.before, game_summary,
                                                    player_id,
                                                    last.batch.outcome[player_id].nba_df),
                                     player_id)
                         ELSE RowsOf(last.batch.before, player_id)

\* the first player of the batch had a correction to write, the second one
\* failed, and the store is the one the run started with
C28_Witness ==
    /\ last.op = "batch_main"
    /\ last.raised
    /\ last.batch.done = 1
    /\ \E player_id \in ProcessedFirst :
          process_player(last.batch.before, game_summary, player_id,
                         last.batch.outcome[player_id].nba_df) # last.batch.before
    /\ season_totals_override = last.batch.before

\* the response with every column name in upper case
UpperCased(frames) ==
    [i \in 1..Len(frames) |->
        [frames[i] EXCEPT !.columns = [k \in 1..Len(@) |-> upper(@[k])]]]

\* the season table of a response is the season table of the same response
\* with upper-case column names
SeasonTableCaseInsensitive ==
    last.op = "nba_career_by_season" =>
        last.nba_df = nba_career_by_season(UpperCased(last.frames))

\* C29: a response whose column names differ from the upper-case names in
\* letter case only gives the output the upper-case response gives: the same
\* season table from nba_career_by_season, and from a fetch_official_totals
\* that asked the remote provider the same career totals
C29_CaseInsensitive ==
    /\ SeasonTableCaseInsensitive
    /\ (/\ last.op = "fetch_official_totals_of_response"
        /\ last.remote = 1
        /\ ~ last.raised) =>
           last.result = totals_of(UpperCased(last.frames))

\* the games of a player of the latest ingestion run that were handled
\* before the processing of the player raised
Handled(player_id) ==
    LET o == last.run.outcome[player_id]
    IN  IF o.stop \in 1..Len(o.games) THEN o.stop - 1 ELSE Len(o.games)

\* the handled games of a player that were neither in the log before the run
\* nor listed earlier in the same response
NewGames(player_id) ==
    LET games == last.run.outcome[player_id].games
    IN  {i \in 1..Handled(player_id) :
            /\ ~ \E r \in last.run.before :
                    r.player_id = player_id /\ r.game_id = games[i].Game_ID
            /\ \A j \in 1..(i - 1) : games[j].Game_ID # games[i].Game_ID}

RECURSIVE CountFrom(_, _)
\* games handled and new games of the run, from the i-th active player on
CountFrom(Count(_), i) ==
    IF i > Len(last.run.active) THEN 0
    ELSE Count(last.run.active[i]) + CountFrom(Count, i + 1)

NewCount(player_id) == Cardinality(NewGames(player_id))

\* C30: the game log never holds two rows of one (player_id, game_id).  A run
\* of update_database removes no row, adds rows of keys that were absent
\* only, counts as added the handled games that were neither in the log nor
\* listed earlier in the response and as skipped all other handled games;
\* a run without an error leaves the log larger by games_added rows
C30_NoDoubleCount ==
    /\ \A r1, r2 \in game_summary :
          (r1.player_id = r2.player_id /\ r1.game_id = r2.game_id) => r1 = r2
    /\ last.op = "update_database" =>
          /\ last.run.before \subseteq game_summary
          /\ last.run.stats.games_added = CountFrom(NewCount, 1)
          /\ last.run.stats.games_skipped
                 = CountFrom(Handled, 1) - CountFrom(NewCount, 1)
          /\ Cardinality(game_summary) - Cardinality(last.run.before)
                 <= last.run.stats.games_added
          /\ last.run.stats.errors = 0 =>
                Cardinality(game_summary) - Cardinality(last.run.before)
                    = last.run.stats.games_added

\* a run without an error in which one response lists a new game twice and
\* another one lists a game the log has: one game added, two skipped
C30_Witness ==
    /\ last.op = "update_database"
    /\ last.run.stats.errors = 0
    /\ last.run.stats.games_added = 1
    /\ last.run.stats.games_skipped = 2
    /\ \E p \in DOMAIN last.run.outcome :
          LET games == last.run.outcome[p].games
          IN  /\ Len(games) = 2
              /\ games[1] = games[2]
              /\ 1 \in NewGames(p)
    /\ \E p \in DOMAIN last.run.outcome :
          LET games == last.run.outcome[p].games
          IN  /\ Len(games) = 1
              /\ \E r \in last.run.before :
                    r.player_id = p /\ r.game_id = games[1].Game_ID
    /\ Cardinality(game_summary) = Cardinality(last.run.before) + 1

====
